---- MODULE Spec2Model ----
(***************************************************************************)
(* Model of aws-lambda-autoscale-provisioned-concurrency-example.          *)
(*                                                                         *)
(* Part 1: the simulated-workload Lambda handler (src/unnamed/part_000):   *)
(*   module load (env -> workTime, coldStartTime, coldStart) and the async *)
(*   handler, cut at its two await points.                                 *)
(* Part 2: the CDK constructs (src/unnamed/part_001, src/lib/...), each    *)
(*   constructor as an operator from its props to the resources it makes.  *)
(*                                                                         *)
(* JavaScript values:                                                      *)
(*   strings   sequences of one-character strings, <<"2","0">> is '20'     *)
(*   numbers   Num(k) for the integer k, NaN for NaN                       *)
(*   optional  Undefined, or Some(v)                                       *)
(***************************************************************************)
EXTENDS Integers, Sequences, FiniteSets

VARIABLES
    env,            \* process.env of the function: the two settings
    instance,       \* which process instance (execution environment) is running
    workTime,       \* const workTime, set at module load
    coldStartTime,  \* const coldStartTime, set at module load
    coldStart,      \* let coldStart
    pc,             \* per invocation: where the async handler is suspended
    armed,          \* per invocation: the durations given to setTimeout, in order
    log,            \* per invocation: the console.log lines it wrote, in order
    result,         \* per invocation: what the handler's promise resolved to
    synth           \* the construct last built by the CDK app (part 2)

handlerVars == <<env, instance, workTime, coldStartTime, coldStart, pc, armed, log, result>>
vars == <<env, instance, workTime, coldStartTime, coldStart, pc, armed, log, result, synth>>

\* ---------------------------------------------------------------- bounds
MaxInv == 2         \* invocations per process instance
MaxInstances == 2   \* process instances created one after another
MaxLen == 2         \* longest environment string tried

\* ---------------------------------------------------------------- JavaScript values
Undefined == [defined |-> FALSE]
Some(v) == [defined |-> TRUE, v |-> v]

NaN == [nan |-> TRUE, n |-> 0]
Num(k) == [nan |-> FALSE, n |-> k]

\* a || b on strings: the empty string and undefined are falsy
StrOrElse(a, b) == IF a.defined /\ a.v # <<>> THEN a.v ELSE b

DecDigits == <<"0", "1", "2", "3", "4", "5", "6", "7", "8", "9">>
HexDigits == DecDigits \o <<"a", "b", "c", "d", "e", "f">>

IsDigit(c, radix) == \E d \in 1..radix : HexDigits[d] = c
DigitVal(c) == (CHOOSE d \in 1..16 : HexDigits[d] = c) - 1

RECURSIVE TrimLeft(_)
TrimLeft(s) == IF s # <<>> /\ Head(s) = " " THEN TrimLeft(Tail(s)) ELSE s

RECURSIVE DigitPrefix(_, _)
DigitPrefix(s, radix) ==
    IF s # <<>> /\ IsDigit(Head(s), radix)
    THEN <<Head(s)>> \o DigitPrefix(Tail(s), radix)
    ELSE <<>>

RECURSIVE DigitsValue(_, _, _)
DigitsValue(s, radix, acc) ==
    IF s = <<>> THEN acc
    ELSE DigitsValue(Tail(s), radix, acc * radix + DigitVal(Head(s)))

\* parseInt(s) with no radix argument: leading blanks are skipped, a sign is
\* taken, 0x selects radix 16, the longest digit prefix is the value, and no
\* digit at all is NaN.
ParseInt(s) ==
    LET t == TrimLeft(s)
        signed == t # <<>> /\ Head(t) \in {"-", "+"}
        sign == IF t # <<>> /\ Head(t) = "-" THEN -1 ELSE 1
        u == IF signed THEN Tail(t) ELSE t
        hex == Len(u) >= 2 /\ u[1] = "0" /\ u[2] = "x"
        radix == IF hex THEN 16 ELSE 10
        w == IF hex THEN Tail(Tail(u)) ELSE u
        d == DigitPrefix(w, radix)
    IN IF d = <<>> THEN NaN ELSE Num(sign * DigitsValue(d, radix, 0))

\* ---------------------------------------------------------------- module load
DefaultWorkTime == <<"2", "0">>
DefaultColdStartTime == <<"2", "0", "0">>

\* workTime had the default been applied to the parsed number: parseInt(X) || 20
WorkTimeNumericOr(e) ==
    LET p == ParseInt(StrOrElse(e.WORKING_TIME_MILLIS, DefaultWorkTime))
    IN IF p.nan \/ p.n = 0 THEN Num(20) ELSE p
WorkTimeOf(e) == ParseInt(StrOrElse(e.WORKING_TIME_MILLIS, DefaultWorkTime))

ColdStartTimeOf(e) == ParseInt(StrOrElse(e.COLD_START_TIME_MILLIS, DefaultColdStartTime))

\* ---------------------------------------------------------------- handler
Inv == 1..MaxInv

Line(text) == [text |-> text, arg |-> <<>>]
LineWith(text, value) == [text |-> text, arg |-> <<value>>]

\* init() without its await: 'Init ended' is logged before the timer fires
InitStartLinesNoAwait ==
    <<LineWith("Setting cold start time: ", coldStartTime), Line("Init started"), Line("Init ended")>>
InitStartLines == <<LineWith("Setting cold start time: ", coldStartTime), Line("Init started")>>
WorkStartLines == <<LineWith("Setting working time: ", workTime), Line("Execution started")>>

\* init() returning true
InitResultStaysCold == TRUE
\* what init() returns, which the handler assigns to coldStart
InitResult == FALSE

\* a handler with an error response
HandlerResultError == [body |-> "Error", statusCode |-> 500]
\* what the handler returns
HandlerResult == [body |-> "OK", statusCode |-> 200]

\* a handler that awaits init() on every call
NeedsInitAlways == TRUE
\* the test of `if (coldStart)`: the handler awaits init() first
NeedsInit == coldStart

\* the value `let coldStart` is given at module load
ColdStartAtLoad == TRUE

\* A process that has served nothing yet.
NoInvocations ==
    [pc |-> [i \in Inv |-> "idle"],
     armed |-> [i \in Inv |-> <<>>],
     log |-> [i \in Inv |-> <<>>],
     result |-> [i \in Inv |-> Undefined]]

EnvChars == {"0", "7", "a"}
EnvStrings == UNION {[1..n -> EnvChars] : n \in 0..MaxLen}
EnvValues == {Undefined} \cup {Some(s) : s \in EnvStrings}
Envs == [WORKING_TIME_MILLIS : EnvValues, COLD_START_TIME_MILLIS : EnvValues]

NoConstruct == [kind |-> "none"]

Init ==
    /\ env \in Envs
    /\ instance = 1
    /\ workTime = WorkTimeOf(env)
    /\ coldStartTime = ColdStartTimeOf(env)
    /\ coldStart = ColdStartAtLoad
    /\ pc = NoInvocations.pc
    /\ armed = NoInvocations.armed
    /\ log = NoInvocations.log
    /\ result = NoInvocations.result
    /\ synth = NoConstruct

\* The host calls handler() for request i (requests are numbered in arrival
\* order). The handler runs to its first await: that of init() when coldStart
\* is true, else that of the processing delay.
Invoke(i) ==
    /\ pc[i] = "idle"
    /\ \A j \in Inv : j < i => pc[j] # "idle"
    /\ IF NeedsInit
       THEN /\ log' = [log EXCEPT ![i] = @ \o InitStartLines]
            /\ armed' = [armed EXCEPT ![i] = Append(@, coldStartTime)]
            /\ pc' = [pc EXCEPT ![i] = "init_await"]
       ELSE /\ log' = [log EXCEPT ![i] = @ \o WorkStartLines]
            /\ armed' = [armed EXCEPT ![i] = Append(@, workTime)]
            /\ pc' = [pc EXCEPT ![i] = "work_await"]
    /\ UNCHANGED <<env, instance, workTime, coldStartTime, coldStart, result, synth>>

\* The same call when the host serves one request at a time per instance.
InvokeAlone(i) ==
    /\ \A j \in Inv : pc[j] \in {"idle", "done"}
    /\ Invoke(i)

\* The timers are the host's: the model records the duration each is armed
\* with and lets an armed timer fire at any later step.
\*
\* The timer of init() fires: init logs and returns, the handler stores the
\* value in coldStart and runs on to the await of the processing delay.
InitTimer(i) ==
    /\ pc[i] = "init_await"
    /\ coldStart' = InitResult
    /\ log' = [log EXCEPT ![i] = (@ \o <<Line("Init ended")>>) \o WorkStartLines]
    /\ armed' = [armed EXCEPT ![i] = Append(@, workTime)]
    /\ pc' = [pc EXCEPT ![i] = "work_await"]
    /\ UNCHANGED <<env, instance, workTime, coldStartTime, result, synth>>

\* The timer of the processing delay fires: the handler logs and returns.
WorkTimer(i) ==
    /\ pc[i] = "work_await"
    /\ log' = [log EXCEPT ![i] = Append(@, Line("Execution ended"))]
    /\ result' = [result EXCEPT ![i] = Some(HandlerResult)]
    /\ pc' = [pc EXCEPT ![i] = "done"]
    /\ UNCHANGED <<env, instance, workTime, coldStartTime, coldStart, armed, synth>>

\* The host starts a fresh execution environment: the module is loaded again
\* with the same environment.
NewInstance ==
    /\ instance < MaxInstances
    /\ instance' = instance + 1
    /\ env' = env
    /\ workTime' = WorkTimeOf(env)
    /\ coldStartTime' = ColdStartTimeOf(env)
    /\ coldStart' = ColdStartAtLoad
    /\ pc' = NoInvocations.pc
    /\ armed' = NoInvocations.armed
    /\ log' = NoInvocations.log
    /\ result' = NoInvocations.result
    /\ synth' = synth

Next ==
    \/ \E i \in Inv : Invoke(i)
    \/ \E i \in Inv : InitTimer(i)
    \/ \E i \in Inv : WorkTimer(i)
    \/ NewInstance

Spec == Init /\ [][Next]_vars

NextSeq ==
    \/ \E i \in Inv : InvokeAlone(i)
    \/ \E i \in Inv : InitTimer(i)
    \/ \E i \in Inv : WorkTimer(i)
    \/ NewInstance

SpecSeq == Init /\ [][NextSeq]_vars

\* One process instance for its whole life, in which every armed timer fires.
NextLive ==
    \/ \E i \in Inv : Invoke(i)
    \/ \E i \in Inv : InitTimer(i)
    \/ \E i \in Inv : WorkTimer(i)

TimersFire == \A i \in Inv : WF_vars(InitTimer(i)) /\ WF_vars(WorkTimer(i))

SpecLive == Init /\ [][NextLive]_vars /\ TimersFire

\* ================================================================ part 2: CDK constructs

MaxCap == 3         \* largest capacity a caller passes
MaxMs == 11         \* largest delay (ms) a caller passes to ExampleLambda

\* a ?? b
Nullish(a, b) == IF a.defined THEN a.v ELSE b
\* a || b on numbers: undefined and 0 are falsy
NumOrElse(a, b) == IF a.defined /\ a.v # 0 THEN a.v ELSE b
\* a || b on objects: only undefined is falsy
ObjOrElse(a, b) == IF a.defined THEN a.v ELSE b
Max(a, b) == IF a >= b THEN a ELSE b

\* Number.prototype.toString() of an integer
RECURSIVE NatToString(_)
NatToString(k) ==
    IF k < 10 THEN <<DecDigits[k + 1]>>
    ELSE Append(NatToString(k \div 10), DecDigits[(k % 10) + 1])
ToString(k) == IF k < 0 THEN <<"-">> \o NatToString(-k) ELSE NatToString(k)

\* ---------------------------------------------------------------- ExampleLambda
DefaultWorkingTimeInMS == 10
DefaultColdStartTimeInMS == 500
MemorySize == 256

ExampleLambda(id, props) ==
    LET workingTimeInMS == NumOrElse(props.workingTimeInMS, DefaultWorkingTimeInMS)
        coldStartTimeInMS == NumOrElse(props.coldStartTimeInMS, DefaultColdStartTimeInMS)
        customRole == [path |-> <<id, "CustomRole">>,
                       assumedBy |-> "lambda.amazonaws.com",
                       managedPolicies |-> <<"service-role/AWSLambdaBasicExecutionRole">>]
        handler == [path |-> <<id, "Fun">>,
                    entry |-> "src/test-function.ts",
                    memorySize |-> MemorySize,
                    environment |-> [WORKING_TIME_MILLIS |-> ToString(workingTimeInMS),
                                     COLD_START_TIME_MILLIS |-> ToString(coldStartTimeInMS)],
                    tracing |-> "ACTIVE",
                    role |-> customRole]
        version == [path |-> <<id, "Version">>, lambda |-> handler]
    IN [kind |-> "ExampleLambda", id |-> id, handler |-> version]

\* ---------------------------------------------------------------- AutoscaleProvisionedConcurrentLambda
Standard == 0
Maximum == 1

DefaultInitialCapacity == 1
DefaultMinCapacity == 1
DefaultMaxCapacity == 50
\* targetValue is a ratio; the model counts it in hundredths (0.8 is 80)
DefaultTargetValue == 80

MinCapacityOf(props) == Nullish(props.minCapacity, DefaultMinCapacity)
MaxCapacityOf(props) == Nullish(props.maxCapacity, DefaultMaxCapacity)

\* initialCapacity without Math.max
InitialCapacityNoClamp(props) == Nullish(props.initialCapacity, DefaultInitialCapacity)
InitialCapacityOf(props) ==
    Max(Nullish(props.initialCapacity, DefaultInitialCapacity), MinCapacityOf(props))

MetricTypeOf(props) == NumOrElse(props.metricType, Standard)
TargetValueOf(props) == NumOrElse(props.targetValue, DefaultTargetValue)

PredefinedPolicy(targetValue) ==
    [id |-> "PCUtilization",
     targetValue |-> targetValue,
     metric |-> [predefined |-> TRUE,
                 name |-> "LAMBDA_PROVISIONED_CONCURRENCY_UTILIZATION"]]

CustomPolicy(targetValue, alias) ==
    [id |-> "PCUtilization",
     targetValue |-> targetValue,
     metric |-> [predefined |-> FALSE,
                 name |-> "ProvisionedConcurrencyUtilization",
                 of |-> alias.path,
                 statistic |-> "max"]]

\* the switch with the break of its first case left out
ScaleToTrackMetricFallThrough(metricType, targetValue, alias) ==
    IF metricType = Standard
    THEN <<PredefinedPolicy(targetValue), CustomPolicy(targetValue, alias)>>
    ELSE IF metricType = Maximum
    THEN <<CustomPolicy(targetValue, alias)>>
    ELSE <<>>
\* switch (metricType): the policies scaleToTrackMetric attaches to the target
ScaleToTrackMetric(metricType, targetValue, alias) ==
    IF metricType = Standard
    THEN <<PredefinedPolicy(targetValue)>>
    ELSE IF metricType = Maximum
    THEN <<CustomPolicy(targetValue, alias)>>
    ELSE <<>>

AutoscaleProvisionedConcurrentLambda(id, props) ==
    LET handler == props.handler
        alias == [path |-> <<id, "Alias">>,
                  aliasName |-> "PCAutoscaled",
                  version |-> handler,
                  provisionedConcurrentExecutions |-> InitialCapacityOf(props)]
        autoscaler == [path |-> <<id, "AutoScaler">>,
                       serviceNamespace |-> "LAMBDA",
                       minCapacity |-> MinCapacityOf(props),
                       maxCapacity |-> MaxCapacityOf(props),
                       resourceId |-> <<"function", handler.lambda.path, alias.aliasName>>,
                       scalableDimension |-> "lambda:function:ProvisionedConcurrency",
                       dependsOn |-> {alias.path},
                       policies |-> ScaleToTrackMetric(MetricTypeOf(props), TargetValueOf(props), alias)]
    IN [kind |-> "AutoscaleProvisionedConcurrentLambda", id |-> id,
        handler |-> alias, autoscaler |-> autoscaler]

\* ---------------------------------------------------------------- ApiGatewayWithLatencyLog
AddMethod(e) ==
    [path |-> e.endpoint,
     httpMethod |-> "GET",
     integration |-> [type |-> "LambdaIntegration", handler |-> e.handler],
     methodResponses |-> <<"200">>,
     authorizationType |-> "NONE"]

ApiGatewayWithLatencyLog(id, props) ==
    LET logGroup == [path |-> <<id, "RestApiLogs">>, removalPolicy |-> "DESTROY"]
        apiGateway == [path |-> <<id, "RestApi">>,
                       accessLogDestination |-> logGroup.path,
                       methods |-> [k \in DOMAIN props.endpoints |-> AddMethod(props.endpoints[k])]]
    IN [kind |-> "ApiGatewayWithLatencyLog", id |-> id, api |-> apiGateway, log |-> logGroup]

\* ---------------------------------------------------------------- QuickDashboard
DefaultPeriodSeconds == 30
CallsPerSecondSourcePeriod == 60

Seconds(n) == [seconds |-> n]

\* a metric of a resource: its name and the options the caller gave
Metric(of, name, opts) == [kind |-> "metric", of |-> of.path, name |-> name, opts |-> opts, using |-> <<>>]
MathExpression(opts, usingMetrics) ==
    [kind |-> "expression", of |-> <<>>, name |-> opts.expression, opts |-> opts, using |-> usingMetrics]

GraphWidget(title, left) == [type |-> "graph", title |-> title, width |-> 8, left |-> left]

MapLambdas(lambdas, F(_)) == [k \in DOMAIN lambdas |-> F(lambdas[k])]

PeriodOf(props) == ObjOrElse(props.period, Seconds(DefaultPeriodSeconds))

QuickDashboard(id, props) ==
    LET period == PeriodOf(props)
        api == props.apiGateway
        apiLatencyWidget == GraphWidget("Api Latency",
            <<Metric(api, "Latency", [period |-> period]),
              Metric(api, "IntegrationLatency", [period |-> period])>>)
        apiCallsWidget == GraphWidget("Api Number of Calls",
            <<Metric(api, "Count", [period |-> period]),
              Metric(api, "4XXError", [period |-> period]),
              Metric(api, "5XXError", [period |-> period])>>)
        apiCallsPerSecondWidget == GraphWidget("Api Calls Per Second",
            <<MathExpression(
                [period |-> period, expression |-> "m1/PERIOD(m1)", label |-> <<"ApiCallsPerSecond">>],
                <<Metric(api, "Count", [period |-> Seconds(CallsPerSecondSourcePeriod)])>>)>>)
        apiCallsSummary == [type |-> "logQuery", title |-> "Summary", width |-> 16,
                            logGroupNames |-> <<props.logGroup.path>>, view |-> "TABLE"]
        ConcExec(l) == Metric(l.fun, "ConcurrentExecutions",
                              [period |-> period, label |-> <<l.label>>, statistic |-> "max"])
        ProvExec(l) == Metric(l.fun, "ProvisionedConcurrentExecutions",
                              [period |-> period, label |-> <<l.label, "-Provisioned">>, statistic |-> "max"])
        Invocations(l) == Metric(l.fun, "Invocations", [period |-> period, label |-> <<l.label>>])
        Spillover(l) == Metric(l.fun, "ProvisionedConcurrencySpilloverInvocations",
                               [period |-> period, label |-> <<l.label, "-Spillover">>, statistic |-> "sum"])
        DurationAvg(l) == Metric(l.fun, "Duration", [period |-> period, label |-> <<l.label, "-avg">>])
        DurationMax(l) == Metric(l.fun, "Duration",
                                 [period |-> period, label |-> <<l.label, "-max">>, statistic |-> "max"])
        lambdaConcurrentExec == GraphWidget("Lambda Concurrent Executions",
            MapLambdas(props.lambdas, ConcExec) \o MapLambdas(props.lambdas, ProvExec))
        lambdaInvocations == GraphWidget("Lambda Invocations",
            MapLambdas(props.lambdas, Invocations) \o MapLambdas(props.lambdas, Spillover))
        lambdaLatency == GraphWidget("Lambda Duration",
            MapLambdas(props.lambdas, DurationAvg) \o MapLambdas(props.lambdas, DurationMax))
    IN [kind |-> "QuickDashboard", id |-> id,
        dashboardName |-> id,
        periodOverride |-> "AUTO",
        lambdas |-> props.lambdas,
        widgets |-> <<<<apiLatencyWidget, apiCallsWidget, apiCallsPerSecondWidget>>,
                      <<lambdaLatency, lambdaInvocations, lambdaConcurrentExec>>,
                      <<apiCallsSummary>>>>]

\* ---------------------------------------------------------------- LambdaAutoscaleStack
NoExampleProps == [workingTimeInMS |-> Undefined, coldStartTimeInMS |-> Undefined]

AutoscaleProps(handler, metricType) ==
    [handler |-> handler, initialCapacity |-> Undefined, minCapacity |-> Undefined,
     maxCapacity |-> Undefined, metricType |-> metricType, targetValue |-> Undefined]

StackOf(standardLambda, customLambda, endpoints, lambdas) ==
    LET apiGateway == ApiGatewayWithLatencyLog("testApiGW", [endpoints |-> endpoints])
    IN [kind |-> "LambdaAutoscaleStack",
        standardLambda |-> standardLambda,
        customLambda |-> customLambda,
        apiGateway |-> apiGateway,
        dashboard |-> QuickDashboard("sampleDashboard",
            [apiGateway |-> apiGateway.api, logGroup |-> apiGateway.log,
             lambdas |-> lambdas, period |-> Undefined])]

\* the stack with the two endpoints' handlers exchanged
LambdaAutoscaleStackSwapped ==
    LET standardLambda == AutoscaleProvisionedConcurrentLambda("standard",
            AutoscaleProps(ExampleLambda("testFun1", NoExampleProps).handler, Undefined))
        customLambda == AutoscaleProvisionedConcurrentLambda("custom",
            AutoscaleProps(ExampleLambda("testFun2", NoExampleProps).handler, Some(Maximum)))
    IN StackOf(standardLambda, customLambda,
               <<[endpoint |-> "standard", handler |-> customLambda.handler],
                 [endpoint |-> "custom", handler |-> standardLambda.handler]>>,
               <<[fun |-> standardLambda.handler, label |-> "standardFun"],
                 [fun |-> customLambda.handler, label |-> "customFun"]>>)
LambdaAutoscaleStack ==
    LET standardLambda == AutoscaleProvisionedConcurrentLambda("standard",
            AutoscaleProps(ExampleLambda("testFun1", NoExampleProps).handler, Undefined))
        customLambda == AutoscaleProvisionedConcurrentLambda("custom",
            AutoscaleProps(ExampleLambda("testFun2", NoExampleProps).handler, Some(Maximum)))
    IN StackOf(standardLambda, customLambda,
               <<[endpoint |-> "standard", handler |-> standardLambda.handler],
                 [endpoint |-> "custom", handler |-> customLambda.handler]>>,
               <<[fun |-> standardLambda.handler, label |-> "standardFun"],
                 [fun |-> customLambda.handler, label |-> "customFun"]>>)

\* ---------------------------------------------------------------- the CDK app
Optional(S) == {Undefined} \cup {Some(x) : x \in S}

Capacities == Optional(0..MaxCap)
MetricTypes == Optional({Standard, Maximum})
TargetValues == Optional({0, 50, DefaultTargetValue, 100})
Delays == Optional(0..MaxMs)
Periods == Optional({Seconds(n) : n \in {0, 1, DefaultPeriodSeconds, CallsPerSecondSourcePeriod, 300}})

SomeVersion == ExampleLambda("fun", NoExampleProps).handler
OtherVersion == ExampleLambda("other", NoExampleProps).handler
SomeAlias == AutoscaleProvisionedConcurrentLambda("a", AutoscaleProps(SomeVersion, Undefined)).handler
OtherAlias == AutoscaleProvisionedConcurrentLambda("b", AutoscaleProps(OtherVersion, Some(Maximum))).handler
SomeApi == ApiGatewayWithLatencyLog("api", [endpoints |-> <<>>])

EndpointLists ==
    UNION {[1..n -> [endpoint : {"standard", "custom"}, handler : {SomeAlias, OtherAlias}]] : n \in 0..2}
LambdaLists ==
    UNION {[1..n -> [fun : {SomeAlias, OtherAlias}, label : {"standardFun", "customFun"}]] : n \in 0..2}

InitCdk ==
    /\ Init
    /\ env = [WORKING_TIME_MILLIS |-> Undefined, COLD_START_TIME_MILLIS |-> Undefined]

\* An app whose stack holds one ExampleLambda.
NewExampleLambda ==
    /\ synth = NoConstruct
    /\ \E w \in Delays, c \in Delays :
        LET props == [workingTimeInMS |-> w, coldStartTimeInMS |-> c]
        IN synth' = [kind |-> "ExampleLambda", props |-> props, out |-> ExampleLambda("fun", props)]
    /\ UNCHANGED handlerVars

\* An app whose stack holds one AutoscaleProvisionedConcurrentLambda.
NewAutoscaleLambda ==
    /\ synth = NoConstruct
    /\ \E ic \in Capacities, lo \in Capacities, hi \in Capacities,
          mt \in MetricTypes, tv \in TargetValues :
        LET props == [handler |-> SomeVersion, initialCapacity |-> ic, minCapacity |-> lo,
                      maxCapacity |-> hi, metricType |-> mt, targetValue |-> tv]
        IN synth' = [kind |-> "AutoscaleProvisionedConcurrentLambda", props |-> props,
                     out |-> AutoscaleProvisionedConcurrentLambda("scaled", props)]
    /\ UNCHANGED handlerVars

\* An app whose stack holds one ApiGatewayWithLatencyLog.
NewApiGateway ==
    /\ synth = NoConstruct
    /\ \E es \in EndpointLists :
        LET props == [endpoints |-> es]
        IN synth' = [kind |-> "ApiGatewayWithLatencyLog", props |-> props,
                     out |-> ApiGatewayWithLatencyLog("api", props)]
    /\ UNCHANGED handlerVars

\* An app whose stack holds one QuickDashboard.
NewQuickDashboard ==
    /\ synth = NoConstruct
    /\ \E p \in Periods, ls \in LambdaLists :
        LET props == [apiGateway |-> SomeApi.api, logGroup |-> SomeApi.log, lambdas |-> ls, period |-> p]
        IN synth' = [kind |-> "QuickDashboard", props |-> props,
                     out |-> QuickDashboard("dashboard", props)]
    /\ UNCHANGED handlerVars

\* The app of this repository: one LambdaAutoscaleStack.
NewStack ==
    /\ synth = NoConstruct
    /\ synth' = [kind |-> "LambdaAutoscaleStack", props |-> <<>>, out |-> LambdaAutoscaleStack]
    /\ UNCHANGED handlerVars

NextCdk ==
    \/ NewExampleLambda
    \/ NewAutoscaleLambda
    \/ NewApiGateway
    \/ NewQuickDashboard
    \/ NewStack

SpecCdk == InitCdk /\ [][NextCdk]_vars

\* ================================================================ properties

InitStarted(i) == \E k \in DOMAIN log[i] : log[i][k] = Line("Init started")
InitEnded(i) == \E k \in DOMAIN log[i] : log[i][k] = Line("Init ended")

OkResponse == [statusCode |-> 200, body |-> "OK"]

JsAdd(a, b) == IF a.nan \/ b.nan THEN NaN ELSE Num(a.n + b.n)
RECURSIVE JsSum(_)
JsSum(ds) == IF ds = <<>> THEN Num(0) ELSE JsAdd(Head(ds), JsSum(Tail(ds)))
TotalDelay(i) == JsSum(armed[i])

\* C1: within one process instance init() is started at most once, also when
\* invocations overlap at the handler's await points.
C1_InitStartedAtMostOnce == Cardinality({i \in Inv : InitStarted(i)}) <= 1

\* C2: a process instance starts with coldStart true; once an invocation has
\* completed its initialization coldStart is false, and within the instance a
\* false coldStart never becomes true again (so it changes from true to false
\* exactly once); a fresh instance starts with it true.
C2_FlagFlipsOnce ==
    /\ coldStart = TRUE
    /\ [][/\ (instance' = instance /\ ~coldStart) => ~coldStart'
          /\ instance' # instance => coldStart'
          /\ (\E i \in Inv : InitEnded(i))' => ~coldStart']_vars

C2_Witness ==
    /\ ~coldStart
    /\ \A i \in Inv : InitEnded(i)

\* C3: an invocation has a result exactly when it has completed, and the
\* result is { statusCode: 200, body: "OK" }, whatever the delays and whether
\* or not the invocation ran init().
C3_AlwaysOk ==
    \A i \in Inv :
        /\ result[i].defined <=> pc[i] = "done"
        /\ result[i].defined => result[i].v = OkResponse

C3_Witness ==
    \E i, j \in Inv :
        /\ pc[i] = "done" /\ InitStarted(i)
        /\ pc[j] = "done" /\ ~InitStarted(j)
        /\ workTime = Num(0)

\* C4: when the instance serves invocations one after another, the first one
\* waits coldStartTime and then workTime (in total coldStartTime + workTime)
\* and every later one waits workTime only.
C4_SequentialDelays ==
    \A i \in Inv : pc[i] = "done" =>
        /\ armed[i] = IF i = 1 THEN <<coldStartTime, workTime>> ELSE <<workTime>>
        /\ TotalDelay(i) = IF i = 1 THEN JsAdd(coldStartTime, workTime) ELSE workTime

C4_Witness ==
    /\ \A i \in Inv : pc[i] = "done"
    /\ coldStartTime = Num(7)
    /\ workTime = Num(70)

NoDigit(s) == \A k \in DOMAIN s : ~IsDigit(s[k], 10)

\* C5: when a setting is missing or holds a non-numeric string, the timer of
\* that setting is armed with the default (20 ms working time, 200 ms cold
\* start time).
C5_DefaultOnBadEnv ==
    \A i \in Inv :
        /\ (~env.WORKING_TIME_MILLIS.defined \/ NoDigit(env.WORKING_TIME_MILLIS.v))
              => (pc[i] \in {"work_await", "done"} => armed[i][Len(armed[i])] = Num(20))
        /\ (~env.COLD_START_TIME_MILLIS.defined \/ NoDigit(env.COLD_START_TIME_MILLIS.v))
              => (pc[i] = "init_await" => armed[i][1] = Num(200))

ZeroEnv == [WORKING_TIME_MILLIS |-> Some(<<"0">>), COLD_START_TIME_MILLIS |-> Some(<<"0">>)]

\* C6: with WORKING_TIME_MILLIS=0 and COLD_START_TIME_MILLIS=0 both delays
\* are 0 and both timers of the first invocation are armed with 0; coldStart
\* is true until the first invocation is made and false once that invocation
\* is past its initialization; the invocation returns the OK response.
C6_ZeroDelays ==
    env = ZeroEnv =>
        /\ workTime = Num(0)
        /\ coldStartTime = Num(0)
        /\ pc[1] = "idle" => coldStart
        /\ pc[1] = "init_await" => armed[1] = <<Num(0)>>
        /\ pc[1] \in {"work_await", "done"} => (armed[1] = <<Num(0), Num(0)>> /\ ~coldStart)
        /\ pc[1] = "done" => result[1] = Some(OkResponse)

C6_Witness == env = ZeroEnv /\ pc[1] = "done"

IsAutoscale == synth.kind = "AutoscaleProvisionedConcurrentLambda"

OmittedDefaults(p, o) ==
    /\ ~p.minCapacity.defined => o.autoscaler.minCapacity = 1
    /\ ~p.maxCapacity.defined => o.autoscaler.maxCapacity = 50
    /\ ~p.targetValue.defined =>
          \A k \in DOMAIN o.autoscaler.policies : o.autoscaler.policies[k].targetValue = 80
    /\ ~p.metricType.defined =>
          \A k \in DOMAIN o.autoscaler.policies : o.autoscaler.policies[k].metric.predefined

\* C7 as claimed: every omitted property takes its default whatever the others
\* are: the alias's provisioned concurrency 1, minCapacity 1, maxCapacity 50,
\* targetValue 0.8, metricType Standard.
C7_OmittedTakeDefault ==
    IsAutoscale =>
        /\ OmittedDefaults(synth.props, synth.out)
        /\ ~synth.props.initialCapacity.defined
              => synth.out.handler.provisionedConcurrentExecutions = 1

\* C7 as amended: minCapacity, maxCapacity, targetValue and metricType take
\* their defaults when omitted; with initialCapacity omitted the alias's
\* provisioned concurrency is the larger of 1 and the minCapacity in force.
C7_OmittedTakeDefaultClamped ==
    IsAutoscale =>
        /\ OmittedDefaults(synth.props, synth.out)
        /\ ~synth.props.initialCapacity.defined
              => synth.out.handler.provisionedConcurrentExecutions
                   = Max(1, synth.out.autoscaler.minCapacity)

C7_Witness ==
    /\ IsAutoscale
    /\ ~synth.props.initialCapacity.defined
    /\ synth.props.minCapacity = Some(2)
    /\ synth.out.handler.provisionedConcurrentExecutions = 2

\* C8: for every metricType exactly one target-tracking policy is attached:
\* Standard or omitted tracks the predefined provisioned-concurrency
\* utilization metric, Maximum tracks the alias's custom
\* ProvisionedConcurrencyUtilization metric with statistic max; the policy's
\* targetValue is the construct's targetValue either way.
C8_OnePolicy ==
    IsAutoscale =>
        LET p == synth.props
            ps == synth.out.autoscaler.policies
            tv == IF p.targetValue.defined /\ p.targetValue.v # 0 THEN p.targetValue.v ELSE 80
        IN /\ Len(ps) = 1
           /\ ps[1].targetValue = tv
           /\ (~p.metricType.defined \/ p.metricType = Some(0)) =>
                 ps[1].metric = [predefined |-> TRUE,
                                 name |-> "LAMBDA_PROVISIONED_CONCURRENCY_UTILIZATION"]
           /\ p.metricType = Some(1) =>
                 ps[1].metric = [predefined |-> FALSE,
                                 name |-> "ProvisionedConcurrencyUtilization",
                                 of |-> synth.out.handler.path,
                                 statistic |-> "max"]

C8_Witness ==
    /\ IsAutoscale
    /\ synth.props.metricType = Some(1)
    /\ synth.props.targetValue = Some(50)
    /\ ~synth.out.autoscaler.policies[1].metric.predefined

IsStack == synth.kind = "LambdaAutoscaleStack"

\* the alias whose scalable target tracks the predefined (custom) metric
ScaledAliases(stack, predefined) ==
    {c.handler : c \in {a \in {stack.standardLambda, stack.customLambda} :
        /\ a.autoscaler.resourceId = <<"function", a.handler.version.lambda.path, a.handler.aliasName>>
        /\ Len(a.autoscaler.policies) = 1
        /\ a.autoscaler.policies[1].metric.predefined = predefined}}

\* C9: the stack's API has exactly the GET endpoints /standard and /custom;
\* /standard is integrated with the alias scaled on the predefined metric and
\* /custom with the alias scaled on the custom maximum metric; the two
\* endpoints have different functions; the dashboard labels standardFun and
\* customFun are bound to the alias of the endpoint of that name.
C9_StackWiring ==
    IsStack =>
        LET stack == synth.out
            ms == stack.apiGateway.api.methods
            ls == stack.dashboard.lambdas
            HandlersOf(path) == {ms[k].integration.handler : k \in {j \in DOMAIN ms : ms[j].path = path}}
            FunsOf(label) == {ls[k].fun : k \in {j \in DOMAIN ls : ls[j].label = label}}
        IN /\ Len(ms) = 2
           /\ {<<ms[k].httpMethod, ms[k].path>> : k \in DOMAIN ms}
                = {<<"GET", "standard">>, <<"GET", "custom">>}
           /\ HandlersOf("standard") = ScaledAliases(stack, TRUE)
           /\ HandlersOf("custom") = ScaledAliases(stack, FALSE)
           /\ \A a \in HandlersOf("standard"), b \in HandlersOf("custom") :
                 a.version.lambda.path # b.version.lambda.path
           /\ Len(ls) = 2
           /\ FunsOf("standardFun") = HandlersOf("standard")
           /\ FunsOf("customFun") = HandlersOf("custom")

C9_Witness ==
    /\ IsStack
    /\ Cardinality(ScaledAliases(synth.out, TRUE)) = 1
    /\ Cardinality(ScaledAliases(synth.out, FALSE)) = 1

IsDashboard == synth.kind = "QuickDashboard"

\* every metric of a graph widget: those on its axis and those they use
WidgetMetrics(w) ==
    IF w.type # "graph" THEN {}
    ELSE {w.left[k] : k \in DOMAIN w.left}
         \cup UNION {{w.left[k].using[j] : j \in DOMAIN w.left[k].using} : k \in DOMAIN w.left}

DashboardMetrics(d) ==
    UNION {UNION {WidgetMetrics(d.widgets[r][k]) : k \in DOMAIN d.widgets[r]} : r \in DOMAIN d.widgets}

C11_ReadThenWriteWithoutAwait ==
    \A i \in Inv : InitStarted(i) => ~coldStart

Count(lines, text) == Cardinality({k \in DOMAIN lines : lines[k].text = text})
Texts(lines) == [k \in DOMAIN lines |-> lines[k].text]

ColdPhases ==
    <<"Setting cold start time: ", "Init started", "Init ended",
      "Setting working time: ", "Execution started", "Execution ended">>
WarmPhases == <<"Setting working time: ", "Execution started", "Execution ended">>

\* C12: within every invocation the phases come in the fixed order (when
\* coldStart was true) 'Init started', 'Init ended', coldStart set to false,
\* then 'Execution started', 'Execution ended', then the return; the
\* processing delay is never armed before the invocation's initialization
\* delay has ended.
C12_PhaseOrder ==
    \A i \in Inv :
        LET t == Texts(log[i])
            cold == InitStarted(i)
        IN /\ pc[i] = "idle" => t = <<>>
           /\ pc[i] = "init_await" => t = SubSeq(ColdPhases, 1, 2) /\ armed[i] = <<coldStartTime>>
           /\ pc[i] = "work_await" =>
                 IF cold THEN t = SubSeq(ColdPhases, 1, 5) /\ armed[i] = <<coldStartTime, workTime>>
                         ELSE t = SubSeq(WarmPhases, 1, 2) /\ armed[i] = <<workTime>>
           /\ pc[i] = "done" => t = (IF cold THEN ColdPhases ELSE WarmPhases)
           /\ InitEnded(i) => ~coldStart
           /\ result[i].defined <=> Count(log[i], "Execution ended") = 1

C12_Witness ==
    \E i, j \in Inv :
        /\ pc[i] = "done" /\ Texts(log[i]) = ColdPhases
        /\ pc[j] = "done" /\ Texts(log[j]) = WarmPhases

\* C13: when every armed timer fires, every invocation made eventually
\* completes, with the OK response, having started and ended the processing
\* delay exactly once.
C13_EveryInvocationCompletes ==
    \A i \in Inv :
        (pc[i] # "idle") ~>
            (/\ pc[i] = "done"
             /\ result[i] = Some(OkResponse)
             /\ Count(log[i], "Execution started") = 1
             /\ Count(log[i], "Execution ended") = 1)

C13_Witness ==
    \E i, j \in Inv :
        /\ i # j
        /\ pc[i] = "done" /\ InitStarted(i) /\ Len(armed[i]) = 2
        /\ pc[j] = "done" /\ InitStarted(j)

\* C14: for every initialCapacity, minCapacity and maxCapacity (with
\* 1 <= minCapacity <= maxCapacity) the alias's provisioned concurrency lies in the
\* scalable target's range: minCapacity <= provisionedConcurrentExecutions <=
\* maxCapacity.
C14_InitialWithinRange ==
    (/\ IsAutoscale
     /\ 1 <= synth.out.autoscaler.minCapacity
     /\ synth.out.autoscaler.minCapacity <= synth.out.autoscaler.maxCapacity) =>
        /\ synth.out.autoscaler.minCapacity <= synth.out.handler.provisionedConcurrentExecutions
        /\ synth.out.handler.provisionedConcurrentExecutions <= synth.out.autoscaler.maxCapacity

IsExample == synth.kind = "ExampleLambda"

\* the environment the function's process is started with
DeployedEnv(fun) ==
    [WORKING_TIME_MILLIS |-> Some(fun.environment.WORKING_TIME_MILLIS),
     COLD_START_TIME_MILLIS |-> Some(fun.environment.COLD_START_TIME_MILLIS)]

\* C15: ExampleLambda passes every non-negative workingTimeInMS and
\* coldStartTimeInMS the caller provides to the function as its decimal
\* string, and 10 and 500 only when the property is not provided, so the
\* handler's workTime and coldStartTime are the delays configured.
C15_ConfiguredDelaysReachHandler ==
    IsExample =>
        LET p == synth.props
            e == DeployedEnv(synth.out.handler.lambda)
        IN /\ WorkTimeOf(e) = Num(IF p.workingTimeInMS.defined THEN p.workingTimeInMS.v ELSE 10)
           /\ ColdStartTimeOf(e) = Num(IF p.coldStartTimeInMS.defined THEN p.coldStartTimeInMS.v ELSE 500)

====
